---- MODULE Spec2Model ----
(***************************************************************************)
(* Model of src/main.py: StockNewsAnalyzer.fetch_news (the query ladder,   *)
(* the url de-duplication and the cap of 20 articles), the orchestration   *)
(* in main() and StockNewsAnalyzer.generate_summary (sentiment buckets,    *)
(* percentages, topic tally, highlights, closing statement).               *)
(*                                                                         *)
(* The news provider, the price provider and TextBlob are external: the    *)
(* provider's response to each query is any element of Responses, and an   *)
(* article's polarity is a field of the article (hundredths, -100..100).   *)
(* The "Market Context" lines of generate_summary (price delta) only add   *)
(* text and are left out.                                                  *)
(***************************************************************************)
EXTENDS Integers, Sequences, FiniteSets, TLC

(***************************************************************************)
(* Program constants                                                       *)
(***************************************************************************)
\* len(all_articles) >= 20, all_articles[:20]  (main.py:84, 110, 116, 117)
Cap == 20
\* five entries of search_queries (main.py:72-78)
NumQueries == 5
\* sentiment > 0.1 / sentiment < -0.1, in hundredths (main.py:151, 153)
Threshold == 10
\* self.news_articles[:5] (main.py:210)
HighlightCount == 5

(***************************************************************************)
(* Bounds of the model                                                     *)
(***************************************************************************)
\* distance between the first urls of two overlapping provider result pages
Step == 4
\* length of a short provider result page
ShortLen == 8
\* length of a long provider result page
LongLen == 16
\* longest article list handed directly to generate_summary in SpecTopics
MaxTopicArticles == 3

(***************************************************************************)
(* Texts.  A text is a sequence of characters; None is Python's None (a    *)
(* JSON null).  Articles carry the name of their text.                     *)
(***************************************************************************)
None == "None"

TRecord == <<"C","o","m","p","a","n","y"," ","r","e","p","o","r","t","s"," ","r","e","c","o","r","d"," ","e","a","r","n","i","n","g","s"," ","g","r","o","w","t","h">>
TRepeat == <<"E","a","r","n","i","n","g","s"," ","b","e","a","t",":"," ","E","A","R","N","I","N","G","S",","," ","p","r","o","f","i","t",","," ","e","a","r","n","i","n","g","s">>
TBoard == <<"B","o","a","r","d"," ","m","e","e","t","i","n","g"," ","h","e","l","d">>
TSaid == <<"C","h","a","i","r","m","a","n"," ","s","a","i","d"," ","s","o">>
TFall == <<"S","h","a","r","e","s"," ","f","a","l","l"," ","o","n"," ","w","e","a","k"," ","r","e","s","u","l","t","s">>
TEmpty == <<>>

TextNames == {"TRecord", "TRepeat", "TBoard", "TSaid", "TFall", "TEmpty"}

Content(name) ==
    CASE name = "TRecord" -> TRecord
      [] name = "TRepeat" -> TRepeat
      [] name = "TBoard"  -> TBoard
      [] name = "TSaid"   -> TSaid
      [] name = "TFall"   -> TFall
      [] name = "TEmpty"  -> TEmpty

\* str.lower() on one ASCII character
LowerChar(c) ==
    CASE c = "A" -> "a" [] c = "B" -> "b" [] c = "C" -> "c" [] c = "D" -> "d"
      [] c = "E" -> "e" [] c = "F" -> "f" [] c = "G" -> "g" [] c = "H" -> "h"
      [] c = "I" -> "i" [] c = "J" -> "j" [] c = "K" -> "k" [] c = "L" -> "l"
      [] c = "M" -> "m" [] c = "N" -> "n" [] c = "O" -> "o" [] c = "P" -> "p"
      [] c = "Q" -> "q" [] c = "R" -> "r" [] c = "S" -> "s" [] c = "T" -> "t"
      [] c = "U" -> "u" [] c = "V" -> "v" [] c = "W" -> "w" [] c = "X" -> "x"
      [] c = "Y" -> "y" [] c = "Z" -> "z"
      [] OTHER -> c

\* str.lower()
Lower(s) == [i \in 1..Len(s) |-> LowerChar(s[i])]

\* Python's  needle in hay  on strings: needle is a contiguous substring
Contains(hay, needle) ==
    \E i \in 1..(Len(hay) - Len(needle) + 1) :
        SubSeq(hay, i, i + Len(needle) - 1) = needle

\* the keywords dict of generate_summary, in its insertion order
keywords ==
    << [topic |-> "earnings", keywords_list |-> <<
          <<"e","a","r","n","i","n","g","s">>,
          <<"p","r","o","f","i","t">>,
          <<"r","e","v","e","n","u","e">>,
          <<"q","u","a","r","t","e","r">>,
          <<"r","e","s","u","l","t","s">>
       >>],
       [topic |-> "growth", keywords_list |-> <<
          <<"g","r","o","w","t","h">>,
          <<"e","x","p","a","n","s","i","o","n">>,
          <<"i","n","c","r","e","a","s","e">>,
          <<"r","i","s","e">>,
          <<"s","u","r","g","e">>
       >>],
       [topic |-> "challenges", keywords_list |-> <<
          <<"f","a","l","l">>,
          <<"d","r","o","p">>,
          <<"d","e","c","l","i","n","e">>,
          <<"l","o","s","s">>,
          <<"c","h","a","l","l","e","n","g","e">>
       >>],
       [topic |-> "innovation", keywords_list |-> <<
          <<"l","a","u","n","c","h">>,
          <<"i","n","n","o","v","a","t","i","o","n">>,
          <<"t","e","c","h","n","o","l","o","g","y">>,
          <<"d","i","g","i","t","a","l">>,
          <<"A","I">>
       >>],
       [topic |-> "market", keywords_list |-> <<
          <<"m","a","r","k","e","t">>,
          <<"s","t","o","c","k">>,
          <<"s","h","a","r","e">>,
          <<"i","n","v","e","s","t","o","r">>,
          <<"t","r","a","d","i","n","g">>
       >>],
       [topic |-> "regulatory", keywords_list |-> <<
          <<"r","e","g","u","l","a","t","o","r","y">>,
          <<"c","o","m","p","l","i","a","n","c","e">>,
          <<"g","o","v","e","r","n","m","e","n","t">>,
          <<"p","o","l","i","c","y">>
       >>],
       [topic |-> "partnership", keywords_list |-> <<
          <<"p","a","r","t","n","e","r","s","h","i","p">>,
          <<"d","e","a","l">>,
          <<"a","g","r","e","e","m","e","n","t">>,
          <<"c","o","l","l","a","b","o","r","a","t","i","o","n">>
       >>] >>

Topics == {keywords[t].topic : t \in 1..Len(keywords)}

AllKeywords ==
    UNION {{keywords[t].keywords_list[j] : j \in 1..Len(keywords[t].keywords_list)}
              : t \in 1..Len(keywords)}

\* keyword.lower() in text.lower(), tabulated once per (text, keyword)
LowerIn ==
    [name \in TextNames |->
        {kw \in AllKeywords : Contains(Lower(Content(name)), Lower(kw))}]

(***************************************************************************)
(* Articles and provider responses                                         *)
(***************************************************************************)
\* the provider knows urls 1..MaxUrl, and one more article whose description is null
MaxUrl == Step + LongLen

\* an element of the "articles" array that is a JSON object
Art(k) ==
    [ isdict      |-> TRUE,
      url         |-> k,
      publishedAt |-> MaxUrl + 1 - k,
      title       |-> IF k % 4 = 0 THEN "TFall"
                      ELSE IF k % 4 = 1 THEN "TRecord"
                      ELSE IF k % 4 = 2 THEN "TBoard" ELSE "TSaid",
      description |-> IF k % 2 = 0 THEN "TEmpty" ELSE "TSaid",
      polarity    |-> IF k % 3 = 0 THEN 50 ELSE IF k % 3 = 1 THEN -50 ELSE 0 ]

\* an article with no url: article.get('url', '') is '' (or None)
NoUrl(k) == [Art(k) EXCEPT !.url = 0]

\* the same url published again, later found under another title
Repost(k) == [Art(k) EXCEPT !.title = "TRepeat", !.publishedAt = MaxUrl - k]

\* "description": null
NullDescription(k) == [Art(k) EXCEPT !.description = None]

\* an element of the "articles" array that is not a JSON object (null, a number):
\* article.get raises AttributeError
NotADict == [Art(1) EXCEPT !.isdict = FALSE, !.url = 0]

\* a result page: consecutive urls, most recent first (sortBy=publishedAt)
Range(lo, n) == [i \in 1..n |-> Art(lo + i - 1)]

Pages ==
    { Range(1, ShortLen), Range(1, LongLen), Range(1 + Step, LongLen),
      << Art(1), NoUrl(1), Repost(1), Art(2) >>,
      << Art(3), NotADict, Art(4) >>,
      << Art(3), NullDescription(MaxUrl + 1) >>,
      << >> }

\* what requests.get(...) / response.json() can produce for one query
Responses ==
    { [kind |-> "exception", status |-> "", articles_null |-> FALSE, articles |-> << >>],
      [kind |-> "badjson",   status |-> "", articles_null |-> FALSE, articles |-> << >>],
      [kind |-> "json", status |-> "error", articles_null |-> FALSE, articles |-> << >>],
      [kind |-> "json", status |-> "ok",    articles_null |-> TRUE,  articles |-> << >>] }
    \cup
    { [kind |-> "json", status |-> "ok", articles_null |-> FALSE, articles |-> p] : p \in Pages }

(***************************************************************************)
(* State                                                                   *)
(***************************************************************************)
VARIABLES
    pc,             \* position in main() / fetch_news()
    qi,             \* index in search_queries of the query the for loop is at
    all_articles,   \* fetch_news: all_articles
    seen_urls,      \* fetch_news: seen_urls
    articles,       \* fetch_news: the part of the current batch not yet iterated
    news_articles,  \* self.news_articles
    ret,            \* what fetch_news returned ("none" before it returns)
    msg,            \* the st.success / st.warning / st.error of fetch_news and main
    summary,        \* what generate_summary returned (kind "none" before)
    issued,         \* history: the queries sent, in order
    fed,            \* history: the elements of every "ok" batch received, in order
    last            \* history: the query last sent, all_articles when it was sent,
                    \*          and how it ended

vars == << pc, qi, all_articles, seen_urls, articles, news_articles, ret, msg,
           summary, issued, fed, last >>

NoSummary == [kind |-> "none"]

NoQuery == [q |-> 0, before |-> << >>, outcome |-> "none"]

\* StockNewsAnalyzer.__init__ and the state before the button is pressed
Init ==
    /\ pc = "start"
    /\ qi = 1
    /\ all_articles = << >>
    /\ seen_urls = {}
    /\ articles = << >>
    /\ news_articles = << >>
    /\ ret = "none"
    /\ msg = << >>
    /\ summary = NoSummary
    /\ issued = << >>
    /\ fed = << >>
    /\ last = NoQuery

(***************************************************************************)
(* fetch_news                                                              *)
(***************************************************************************)
\* search_queries, with company_name written name and ticker_short written ticker
search_queries ==
    << "(name OR ticker) AND (stock OR share OR market)",
       "name stock",
       "ticker share market",
       "name",
       "ticker" >>

\* variant of QueryLoopBreak that lets one more query through: > for >=
QueryLoopBreakOffByOne(n) == n > Cap

\* if len(all_articles) >= 20: break          (top of the query loop)
QueryLoopBreak(n) == n >= Cap

\* if len(all_articles) >= 20: break          (inside the article loop)
ArticleLoopBreak(n) == n >= Cap

\* variant of Admit without the seen_urls test
AdmitAnyUrl(a, seen) == a.url # 0

\* if article_url and article_url not in seen_urls
Admit(a, seen) == a.url # 0 /\ a.url \notin seen

\* variant of AppendArticle that inserts at the front: all_articles.insert(0, article)
PrependArticle(all, a) == << a >> \o all

\* all_articles.append(article)
AppendArticle(all, a) == Append(all, a)

\* the query loop is at an entry of search_queries and the cap is not met:
\* requests.get is called with that query
SendQuery ==
    /\ pc = "for"
    /\ qi <= Len(search_queries)
    /\ ~QueryLoopBreak(Len(all_articles))
    /\ issued' = Append(issued, search_queries[qi])

\* except Exception: continue  -- and the loop's normal next iteration
NextQuery ==
    /\ qi' = qi + 1
    /\ pc' = "for"
    /\ articles' = << >>

\* main() reaches analyzer.fetch_news(days_back=news_days); all_articles and
\* seen_urls start empty
FetchNewsCall ==
    /\ pc = "fetch_news"
    /\ pc' = "for"
    /\ qi' = 1
    /\ all_articles' = << >>
    /\ seen_urls' = {}
    /\ articles' = << >>
    /\ UNCHANGED << news_articles, ret, msg, summary, issued, fed, last >>

\* requests.get raises (network error, timeout) or response.json() raises
\* (the body is not JSON), or news_data is not a dict: caught, continue
RequestRaises ==
    /\ SendQuery
    /\ \E r \in Responses : r.kind \in {"exception", "badjson"}
    /\ NextQuery
    /\ last' = [q |-> qi, before |-> all_articles, outcome |-> "failed"]
    /\ UNCHANGED << all_articles, seen_urls, news_articles, ret, msg, summary, fed >>

\* news_data.get('status') != 'ok': the if body is skipped
StatusNotOk ==
    /\ SendQuery
    /\ \E r \in Responses : r.kind = "json" /\ r.status # "ok"
    /\ NextQuery
    /\ last' = [q |-> qi, before |-> all_articles, outcome |-> "failed"]
    /\ UNCHANGED << all_articles, seen_urls, news_articles, ret, msg, summary, fed >>

\* status ok and "articles": null: for article in None raises TypeError, caught
ArticlesNull ==
    /\ SendQuery
    /\ \E r \in Responses : r.kind = "json" /\ r.status = "ok" /\ r.articles_null
    /\ NextQuery
    /\ last' = [q |-> qi, before |-> all_articles, outcome |-> "failed"]
    /\ UNCHANGED << all_articles, seen_urls, news_articles, ret, msg, summary, fed >>

\* status ok: articles = news_data.get('articles', []), the article loop starts
StatusOk ==
    /\ SendQuery
    /\ \E r \in Responses :
          /\ r.kind = "json" /\ r.status = "ok" /\ ~r.articles_null
          /\ articles' = r.articles
          /\ fed' = fed \o r.articles
    /\ pc' = "for_article"
    /\ last' = [q |-> qi, before |-> all_articles, outcome |-> "ok"]
    /\ UNCHANGED << qi, all_articles, seen_urls, news_articles, ret, msg, summary >>

\* the article loop takes an element that is not a dict: article.get raises
\* AttributeError, caught by the except around the whole query: continue
ArticleRaises ==
    /\ pc = "for_article"
    /\ articles # << >>
    /\ ~Head(articles).isdict
    /\ NextQuery
    /\ last' = [last EXCEPT !.outcome = "failed"]
    /\ UNCHANGED << all_articles, seen_urls, news_articles, ret, msg, summary,
                    issued, fed >>

\* the article loop takes an article with a new url: it is added, and the loop
\* breaks when the cap is met
ArticleAdmitted ==
    /\ pc = "for_article"
    /\ articles # << >>
    /\ Head(articles).isdict
    /\ Admit(Head(articles), seen_urls)
    /\ seen_urls' = seen_urls \cup {Head(articles).url}
    /\ all_articles' = AppendArticle(all_articles, Head(articles))
    /\ IF ArticleLoopBreak(Len(all_articles'))
          THEN NextQuery
          ELSE /\ articles' = Tail(articles)
               /\ UNCHANGED << pc, qi >>
    /\ UNCHANGED << news_articles, ret, msg, summary, issued, fed, last >>

\* the article loop takes an article with no url or with a url already seen
ArticleSkipped ==
    /\ pc = "for_article"
    /\ articles # << >>
    /\ Head(articles).isdict
    /\ ~Admit(Head(articles), seen_urls)
    /\ articles' = Tail(articles)
    /\ UNCHANGED << pc, qi, all_articles, seen_urls, news_articles, ret, msg,
                    summary, issued, fed, last >>

\* the article loop has iterated the whole batch
BatchDone ==
    /\ pc = "for_article"
    /\ articles = << >>
    /\ NextQuery
    /\ UNCHANGED << all_articles, seen_urls, news_articles, ret, msg, summary,
                    issued, fed, last >>

\* the query loop ends: by its break, or with search_queries exhausted
QueryLoopEnds ==
    /\ pc = "for"
    /\ (qi > Len(search_queries) \/ QueryLoopBreak(Len(all_articles)))
    /\ pc' = "after_loop"
    /\ UNCHANGED << qi, all_articles, seen_urls, articles, news_articles, ret, msg,
                    summary, issued, fed, last >>

\* all_articles[:20]
FirstCap(all) == SubSeq(all, 1, IF Len(all) < Cap THEN Len(all) ELSE Cap)

\* the if / elif / else that ends fetch_news
FetchNewsReturns ==
    /\ pc = "after_loop"
    /\ pc' = "fetched"
    /\ IF Len(all_articles) >= Cap
          THEN /\ news_articles' = FirstCap(all_articles)
               /\ msg' = Append(msg, "success")
               /\ ret' = "True"
          ELSE IF Len(all_articles) > 0
          THEN /\ news_articles' = all_articles
               /\ msg' = Append(msg, "warning")
               /\ ret' = "True"
          ELSE /\ news_articles' = news_articles
               /\ msg' = Append(msg, "no_news")
               /\ ret' = "False"
    /\ UNCHANGED << qi, all_articles, seen_urls, articles, summary, issued, fed, last >>

(***************************************************************************)
(* generate_summary                                                        *)
(***************************************************************************)
\* the if / elif / else on blob.sentiment.polarity
Bucket(polarity) ==
    IF polarity > Threshold THEN "positive"
    ELSE IF polarity < -Threshold THEN "negative"
    ELSE "neutral"

\* the for loop that counts positive_count, negative_count, neutral_count
RECURSIVE SentimentCounts(_, _)
SentimentCounts(news, i) ==
    IF i > Len(news)
        THEN [positive |-> 0, negative |-> 0, neutral |-> 0]
        ELSE LET rest == SentimentCounts(news, i + 1)
                 b    == Bucket(news[i].polarity)
             IN  [rest EXCEPT ![b] = @ + 1]

\* the "Overall Sentiment" line
OverallSentiment(p, n) ==
    IF p > n THEN "predominantly positive"
    ELSE IF n > p THEN "predominantly negative"
    ELSE "mixed"

\* variant of PercentTenths that cuts the digits off instead of rounding
PercentTruncated(count, total) == (1000 * count) \div total

\* f"{count/total_articles*100:.1f}": the printed number in tenths of a percent.
\* Python formats the double count/total*100 rounding to nearest, ties to even;
\* for totals this small the double is a tie exactly when 1000*count/total is.
PercentTenths(count, total) ==
    LET q == (1000 * count) \div total
        r == (1000 * count) % total
    IN  IF 2 * r > total THEN q + 1
        ELSE IF 2 * r = total THEN q + (q % 2)
        ELSE q

\* keyword.lower() in text.lower()
KeywordIn(kw, name) == kw \in LowerIn[name]

\* any(keyword.lower() in article.get('title', '').lower() or
\*     keyword.lower() in article.get('description', '').lower()
\*     for keyword in keywords_list)
\* evaluated left to right with Python's short circuits; None.lower() raises
RECURSIVE AnyKeyword(_, _, _)
AnyKeyword(a, kws, j) ==
    IF j > Len(kws) THEN "miss"
    ELSE IF a.title = None THEN "raise"
    ELSE IF KeywordIn(kws[j], a.title) THEN "hit"
    ELSE IF a.description = None THEN "raise"
    ELSE IF KeywordIn(kws[j], a.description) THEN "hit"
    ELSE AnyKeyword(a, kws, j + 1)

\* variant of ArticleMentions that counts every keyword found in the article
ArticleMentionsPerKeyword(a, kws) ==
    IF a.title = None \/ a.description = None THEN -1
    ELSE Cardinality({j \in 1..Len(kws) :
                         KeywordIn(kws[j], a.title) \/ KeywordIn(kws[j], a.description)})

\* what one article adds to sum(1 for article in ... if any(...)); -1: it raised
ArticleMentions(a, kws) ==
    LET m == AnyKeyword(a, kws, 1)
    IN  IF m = "raise" THEN -1 ELSE IF m = "hit" THEN 1 ELSE 0

\* count = sum(1 for article in self.news_articles if any(...)); -1: it raised
RECURSIVE TopicCount(_, _, _)
TopicCount(news, kws, i) ==
    IF i > Len(news) THEN 0
    ELSE LET m == ArticleMentions(news[i], kws)
         IN  IF m = -1 THEN -1
             ELSE LET rest == TopicCount(news, kws, i + 1)
                  IN  IF rest = -1 THEN -1 ELSE m + rest

\* count of every topic of the keywords dict
TopicCounts(news) ==
    [t \in 1..Len(keywords) |-> TopicCount(news, keywords[t].keywords_list, 1)]

\* topics_mentioned: the topics with count > 0, in the dict's order
RECURSIVE TopicsMentioned(_, _)
TopicsMentioned(counts, t) ==
    IF t > Len(counts) THEN << >>
    ELSE (IF counts[t] > 0
             THEN << [topic |-> keywords[t].topic, mentions |-> counts[t]] >>
             ELSE << >>)
         \o TopicsMentioned(counts, t + 1)

\* for i, article in enumerate(self.news_articles[:5], 1)
Highlights(news) ==
    [i \in 1..(IF Len(news) < HighlightCount THEN Len(news) ELSE HighlightCount) |->
        [date |-> news[i].publishedAt, title |-> news[i].title]]

\* variant of Conclusion with >= for >
ConclusionNonStrict(p, n) ==
    IF 2 * p >= 3 * n THEN << "strongly positive" >>
    ELSE IF 2 * n >= 3 * p THEN << "concerning" >>
    ELSE << "mixed" >>

\* the statements appended after "**Conclusion:**".
\* positive_count > negative_count * 1.5 on small integers is 2p > 3n exactly.
Conclusion(p, n) ==
    IF 2 * p > 3 * n THEN << "strongly positive" >>
    ELSE IF 2 * n > 3 * p THEN << "concerning" >>
    ELSE << "mixed" >>

\* generate_summary, after its guard: the summary, or the exception it raises
SummaryBody(news) ==
    LET c      == SentimentCounts(news, 1)
        total  == Len(news)
        counts == TopicCounts(news)
    IN  IF total = 0
           THEN [kind |-> "raised", error |-> "ZeroDivisionError"]
        ELSE IF \E t \in 1..Len(counts) : counts[t] = -1
           THEN [kind |-> "raised", error |-> "AttributeError"]
        ELSE [ kind             |-> "text",
               total_articles   |-> total,
               positive_count   |-> c.positive,
               negative_count   |-> c.negative,
               neutral_count    |-> c.neutral,
               overall          |-> OverallSentiment(c.positive, c.negative),
               percent          |-> [ positive |-> PercentTenths(c.positive, total),
                                      negative |-> PercentTenths(c.negative, total),
                                      neutral  |-> PercentTenths(c.neutral, total) ],
               count            |-> [t \in Topics |->
                                        counts[CHOOSE i \in 1..Len(keywords) :
                                                   keywords[i].topic = t]],
               topics_mentioned |-> TopicsMentioned(counts, 1),
               highlights       |-> Highlights(news),
               conclusion       |-> Conclusion(c.positive, c.negative) ]

\* if not self.news_articles: return "No news articles available for summary."
GenerateSummary(news) ==
    IF news = << >> THEN [kind |-> "no_articles"] ELSE SummaryBody(news)

(***************************************************************************)
(* main(): the body of  if analyze_button                                  *)
(***************************************************************************)
\* variant of Proceeds that ignores what fetch_news returned
ProceedsAlways(r) == TRUE

\* if not news_fetched: ... return
Proceeds(r) == r = "True"

\* analyzer.fetch_stock_data() returns
FetchStockData ==
    /\ pc = "start"
    /\ pc' = "fetch_news"
    /\ UNCHANGED << qi, all_articles, seen_urls, articles, news_articles, ret, msg,
                    summary, issued, fed, last >>

\* analyzer.fetch_stock_data() raises (the price provider is unreachable):
\* main's except shows the error
FetchStockDataRaises ==
    /\ pc = "start"
    /\ pc' = "error"
    /\ msg' = Append(msg, "exception")
    /\ UNCHANGED << qi, all_articles, seen_urls, articles, news_articles, ret,
                    summary, issued, fed, last >>

\* fetch_news returned False: "Cannot proceed without news data", return
CannotProceed ==
    /\ pc = "fetched"
    /\ ~Proceeds(ret)
    /\ pc' = "returned"
    /\ msg' = Append(msg, "cannot_proceed")
    /\ UNCHANGED << qi, all_articles, seen_urls, articles, news_articles, ret,
                    summary, issued, fed, last >>

\* fetch_news returned True: "Analysis Complete!", on to the summary
AnalysisComplete ==
    /\ pc = "fetched"
    /\ Proceeds(ret)
    /\ pc' = "summary"
    /\ msg' = Append(msg, "analysis_complete")
    /\ UNCHANGED << qi, all_articles, seen_urls, articles, news_articles, ret,
                    summary, issued, fed, last >>

\* summary = analyzer.generate_summary(); st.markdown(summary).  An exception
\* is caught by main's except, which shows the error.
CallGenerateSummary ==
    /\ pc = "summary"
    /\ summary' = GenerateSummary(news_articles)
    /\ IF summary'.kind = "raised"
          THEN /\ pc' = "error"
               /\ msg' = Append(msg, "exception")
          ELSE /\ pc' = "summary_shown"
               /\ msg' = msg
    /\ UNCHANGED << qi, all_articles, seen_urls, articles, news_articles, ret,
                    issued, fed, last >>

\* the metrics and the article list that main shows after the summary
ShowArticles ==
    /\ pc = "summary_shown"
    /\ pc' = "done"
    /\ UNCHANGED << qi, all_articles, seen_urls, articles, news_articles, ret, msg,
                    summary, issued, fed, last >>

Next ==
    \/ FetchStockData
    \/ FetchStockDataRaises
    \/ FetchNewsCall
    \/ RequestRaises
    \/ StatusNotOk
    \/ ArticlesNull
    \/ StatusOk
    \/ ArticleRaises
    \/ ArticleAdmitted
    \/ ArticleSkipped
    \/ BatchDone
    \/ QueryLoopEnds
    \/ FetchNewsReturns
    \/ CannotProceed
    \/ AnalysisComplete
    \/ CallGenerateSummary
    \/ ShowArticles

Spec == Init /\ [][Next]_vars

(***************************************************************************)
(* generate_summary on its own: it is applied to article lists drawn from  *)
(* two bounded families.                                                   *)
(***************************************************************************)
\* an article TextBlob scores v, with a title and a description without keywords
Scored(i, v) ==
    [ isdict |-> TRUE, url |-> i, publishedAt |-> 1,
      title |-> "TBoard", description |-> "TEmpty", polarity |-> v ]

\* an article with the given title and description, scored neutral
Worded(i, t, d) ==
    [ isdict |-> TRUE, url |-> i, publishedAt |-> 1,
      title |-> t, description |-> d, polarity |-> 0 ]

\* what TextBlob gives the positive, the negative and the neutral articles of a
\* list, in hundredths: values next to the two thresholds and far from them
PolarityProfiles == { << 11, -11, 10 >>, << 100, -100, -10 >>, << 50, -50, 0 >> }

\* c[1] positive, c[2] negative and c[3] neutral articles, scored by the profile v
SentimentList(c, v) ==
    [i \in 1..(c[1] + c[2] + c[3]) |->
        Scored(i, IF i <= c[1] THEN v[1] ELSE IF i <= c[1] + c[2] THEN v[2] ELSE v[3])]

\* the numbers of positive, negative and neutral articles: at most Cap together
SentimentSplits ==
    {c \in (0..Cap) \X (0..Cap) \X (0..Cap) : c[1] + c[2] + c[3] <= Cap}

TitleChoices == {"TRecord", "TRepeat", "TBoard", None}
DescriptionChoices == {"TSaid", "TFall", None}

\* the articles with the titles and descriptions f gives
TopicList(f) == [i \in DOMAIN f |-> Worded(i, f[i][1], f[i][2])]

\* generate_summary is about to be called on a list of scored articles, or on a
\* list of up to MaxTopicArticles worded articles
InitSummary ==
    /\ pc = "summary"
    /\ \/ \E c \in SentimentSplits, v \in PolarityProfiles :
             news_articles = SentimentList(c, v)
       \/ \E n \in 1..MaxTopicArticles :
             \E f \in [1..n -> TitleChoices \X DescriptionChoices] :
                news_articles = TopicList(f)
    /\ qi = 1
    /\ all_articles = << >>
    /\ seen_urls = {}
    /\ articles = << >>
    /\ ret = "none"
    /\ msg = << >>
    /\ summary = NoSummary
    /\ issued = << >>
    /\ fed = << >>
    /\ last = NoQuery

NextSummary == CallGenerateSummary

SpecSummary == InitSummary /\ [][NextSummary]_vars

(***************************************************************************)
(* Properties                                                              *)
(***************************************************************************)
NoSharedUrl(s) ==
    \A i, j \in 1..Len(s) : i # j => s[i].url # s[j].url

Min(a, b) == IF a < b THEN a ELSE b

Take(s, n) == SubSeq(s, 1, Min(Len(s), n))

\* the elements of s at the positions K, in the order of s
AtPositions(s, K) ==
    [r \in 1..Cardinality(K) |->
        s[CHOOSE i \in K : Cardinality({k \in K : k <= i}) = r]]

\* the positions of s whose url occurs at no earlier position
FirstOfUrl(s) ==
    {i \in 1..Len(s) : s[i].url \notin {s[j].url : j \in 1..(i - 1)}}

\* fetch_news has returned
Fetched == pc \in {"fetched", "returned", "summary", "summary_shown", "done", "error"}
              /\ ret # "none"

\* every element received so far is an article record
OnlyArticles == \A i \in 1..Len(fed) : fed[i].isdict

\* the last message shown
LastMsg == IF msg = << >> THEN "none" ELSE msg[Len(msg)]

\* C1: during and after fetch_news the collected list holds at most 20 articles
\* and no two of them share a url; the same holds for news_articles.
C1_CapAndUniqueUrls ==
    /\ Len(all_articles) <= Cap
    /\ NoSharedUrl(all_articles)
    /\ Len(news_articles) <= Cap
    /\ NoSharedUrl(news_articles)

\* the cap was reached from batches that offered more than 20 elements and
\* repeated a url
C1_Witness ==
    /\ pc = "fetched"
    /\ Len(news_articles) = Cap
    /\ Len(fed) > Cap
    /\ \E i, j \in 1..Len(fed) : i < j /\ fed[i].url = fed[j].url /\ fed[i].url # 0

\* the elements received that the article loop has gone through (all of them
\* between two queries)
Consumed == SubSeq(fed, 1, Len(fed) - Len(articles))

\* C2 as stated: the aggregated list is the articles of the concatenated batches
\* whose url was not seen earlier, in first-seen order, cut to the first 20.
C2_DistinctUrlsOfBatches ==
    (Fetched /\ OnlyArticles) =>
        all_articles = Take(AtPositions(fed, FirstOfUrl(fed)), Cap)

\* C2, amended: the aggregated list is the articles of the concatenated batches
\* that have a non-empty url not seen earlier, in first-seen order, cut to the
\* first 20; an article without a url is never admitted.  It holds after every
\* step of the article loop, of the elements gone through so far.
C2_DistinctNonEmptyUrlsOfBatches ==
    OnlyArticles =>
        all_articles =
            Take(AtPositions(Consumed, {i \in FirstOfUrl(Consumed) : Consumed[i].url # 0}),
                 Cap)

\* overlapping batches, one of them with an article without url, were aggregated
C2_Witness ==
    /\ pc = "fetched"
    /\ OnlyArticles
    /\ \E i \in 1..Len(fed) : fed[i].url = 0
    /\ \E i, j \in 1..Len(fed) : i < j /\ fed[i].url = fed[j].url /\ fed[i] # fed[j]
    /\ Len(all_articles) > 2
    /\ Len(all_articles) < Len(fed)

\* fetch_news is running
InFetch == pc \in {"for", "for_article", "after_loop"}

LongestPage == LongLen + 4

\* decreases with every step of fetch_news
Measure ==
    IF ~InFetch THEN 0
    ELSE (Len(search_queries) + 2 - qi) * 2 * LongestPage
         + (IF pc = "for" THEN LongestPage + 1
            ELSE IF pc = "for_article" THEN Len(articles) + 1
            ELSE 0)

\* C3: the queries are sent in the ladder's order, each at most once; once 20
\* articles are collected no query is sent and no batch is processed; every step
\* of fetch_news brings its end nearer and it is never stuck, so it ends after
\* at most five queries.
C3_LadderOrderAndEarlyStop ==
    /\ [](/\ Len(issued) <= NumQueries
          /\ issued = SubSeq(<< "(name OR ticker) AND (stock OR share OR market)",
                                "name stock", "ticker share market", "name",
                                "ticker" >>, 1, Len(issued))
          /\ (InFetch => ENABLED Next))
    /\ [][/\ Len(all_articles) >= Cap =>
                (issued' = issued /\ fed' = fed /\ all_articles' = all_articles)
          /\ InFetch => (Measure' < Measure /\ Measure' >= 0)]_vars

\* the cap was met before the ladder was exhausted
C3_Witness ==
    /\ pc = "fetched"
    /\ Len(all_articles) = Cap
    /\ Len(issued) \in 2..(NumQueries - 1)

\* C4 as stated: a query that failed has added nothing to the articles collected
\* before it, and the loop goes on with the next query.
C4_FailedQueryAddsNothing ==
    last.outcome = "failed" =>
        /\ all_articles = last.before
        /\ pc = "for" => search_queries[qi - 1] = issued[Len(issued)]

\* C5: with zero articles after the ladder fetch_news returns False, main shows
\* "cannot proceed" and stops; generate_summary is never entered with zero
\* articles, so its percentages never divide by zero.
C5_NoSummaryWithoutArticles ==
    /\ (Fetched /\ Len(all_articles) = 0) => ret = "False"
    /\ (ret = "False") =>
          /\ "no_news" \in {msg[i] : i \in 1..Len(msg)}
          /\ pc \in {"fetched", "returned"}
          /\ pc = "returned" => LastMsg = "cannot_proceed"
          /\ summary = NoSummary
    /\ pc = "summary" => Len(news_articles) > 0
    /\ summary.kind = "text" => summary.total_articles > 0
    /\ summary.kind = "raised" => summary.error # "ZeroDivisionError"
    /\ summary.kind # "no_articles"

\* the whole ladder was tried, nothing was found and main stopped
C5_Witness ==
    /\ pc = "returned"
    /\ Len(issued) = NumQueries
    /\ all_articles = << >>
    /\ LastMsg = "cannot_proceed"

\* every article received so far has a title and a description
NoNullText == \A i \in 1..Len(fed) : fed[i].title # None /\ fed[i].description # None

\* the articles of s are in the order most recent first
MostRecentFirst(s) ==
    \A i, j \in 1..Len(s) : i < j => s[i].publishedAt >= s[j].publishedAt

ArticlesOf(page) == AtPositions(page, {i \in 1..Len(page) : page[i].isdict})

\* C6 as stated: every batch being a list of complete articles, most recent first,
\* news_articles is most recent first, and the highlights are the five most
\* recent articles.
C6_NewsMostRecentFirst ==
    ((\A page \in Pages : MostRecentFirst(ArticlesOf(page)))
        /\ OnlyArticles /\ NoNullText /\ Fetched) =>
        /\ MostRecentFirst(news_articles)
        /\ summary.kind = "text" =>
              \A h \in 1..Len(summary.highlights) :
                 \A i \in (h + 1)..Len(news_articles) :
                    summary.highlights[h].date >= news_articles[i].publishedAt

\* the sum of the three printed percentages, in tenths of a percent
PercentSum ==
    summary.percent.positive + summary.percent.negative + summary.percent.neutral

\* C7: for a non-empty article list the three printed percentages sum to 100
\* within 0.1.
C7_PercentagesSumTo100 ==
    summary.kind = "text" =>
        /\ PercentSum >= 1000 - 1
        /\ PercentSum <= 1000 + 1
        /\ summary.positive_count + summary.negative_count + summary.neutral_count
              = Len(news_articles)

\* a summary whose rounded percentages do not sum to exactly 100
C7_Witness ==
    /\ summary.kind = "text"
    /\ Len(news_articles) = Cap - 1
    /\ PercentSum = 1000 + 1

\* the articles of news scored above 0.1 / below -0.1
PositiveArticles(news) == Cardinality({i \in 1..Len(news) : news[i].polarity > Threshold})
NegativeArticles(news) == Cardinality({i \in 1..Len(news) : news[i].polarity < -Threshold})

CountsAre(p, n, u) ==
    /\ PositiveArticles(news_articles) = p
    /\ NegativeArticles(news_articles) = n
    /\ Len(news_articles) = p + n + u

\* C8: exactly one closing statement: strongly positive iff positive >
\* negative * 1.5, else concerning iff negative > positive * 1.5, else mixed.
C8_ClosingStatement ==
    summary.kind = "text" =>
        LET P == PositiveArticles(news_articles)
            N == NegativeArticles(news_articles)
        IN  /\ Len(summary.conclusion) = 1
            /\ summary.conclusion[1] = "strongly positive" <=> 2 * P > 3 * N
            /\ summary.conclusion[1] = "concerning" <=> (2 * P <= 3 * N /\ 2 * N > 3 * P)
            /\ summary.conclusion[1] = "mixed" <=> (2 * P <= 3 * N /\ 2 * N <= 3 * P)
            /\ CountsAre(10, 2, 3) => summary.conclusion[1] = "strongly positive"
            /\ (P = 2 /\ N = 10) => summary.conclusion[1] = "concerning"
            /\ CountsAre(5, 5, 5) => summary.conclusion[1] = "mixed"

\* the summary of 10 positive, 2 negative and 3 neutral articles
C8_Witness ==
    /\ summary.kind = "text"
    /\ CountsAre(10, 2, 3)
    /\ summary.conclusion = << "strongly positive" >>

\* the keywords that occur in each text at some offset, letter by letter,
\* whatever the case of either
OccurringIn ==
    [name \in TextNames |->
        {kw \in AllKeywords :
            \E off \in 0..(Len(Content(name)) - Len(kw)) :
                \A k \in 1..Len(kw) :
                    LowerChar(Content(name)[off + k]) = LowerChar(kw[k])}]

\* the keyword occurs in the text
Occurs(kw, name) == name # None /\ kw \in OccurringIn[name]

\* the articles of news in whose title or description a keyword of the topic occurs
ArticlesAbout(news, t) ==
    {i \in 1..Len(news) :
        \E j \in 1..Len(keywords[t].keywords_list) :
            \/ Occurs(keywords[t].keywords_list[j], news[i].title)
            \/ Occurs(keywords[t].keywords_list[j], news[i].description)}

\* C9: each topic's count is the number of articles in which one of its keywords
\* occurs in the title or the description, so it is at most the number of
\* articles; "Company reports record earnings growth" adds 1 to earnings and 1
\* to growth.
C9_TopicCountPerArticle ==
    summary.kind = "text" =>
        /\ \A t \in 1..Len(keywords) :
              /\ summary.count[keywords[t].topic]
                    = Cardinality(ArticlesAbout(news_articles, t))
              /\ summary.count[keywords[t].topic] <= Len(news_articles)
        /\ (\A i \in 1..Len(news_articles) : news_articles[i].title = "TRecord") =>
              /\ summary.count["earnings"] = Len(news_articles)
              /\ summary.count["growth"] = Len(news_articles)

\* a summary of the example article and of one that repeats a keyword
C9_Witness ==
    /\ summary.kind = "text"
    /\ Len(news_articles) = 2
    /\ news_articles[1].title = "TRecord"
    /\ news_articles[2].title = "TRepeat"
    /\ summary.count["earnings"] = 2
    /\ summary.count["growth"] = 1

\* C10 as stated: with 1 to 19 articles after the ladder, fetch_news stores them
\* all, warns, returns True, and main goes on to a summary of exactly those
\* articles.
C10_PartialResultsSummarised ==
    (Fetched /\ Len(all_articles) >= 1 /\ Len(all_articles) < Cap) =>
        /\ news_articles = all_articles
        /\ ret = "True"
        /\ "warning" \in {msg[i] : i \in 1..Len(msg)}
        /\ pc \in {"fetched", "summary", "summary_shown", "done"}
        /\ pc \in {"summary_shown", "done"} =>
              (summary.kind = "text" /\ summary.total_articles = Len(all_articles))

====
